---- MODULE Spec2Model ----
(***************************************************************************)
(* MTM marketplace watcher (app.py).  The watcher polls a trip table for   *)
(* a rolling window of dates, extracts rows, filters them on distance and  *)
(* city, and sends one Telegram alert per new trip key.                     *)
(*                                                                         *)
(* Text is modelled as a sequence of one-character strings, so that        *)
(* strip(), splitlines(), re.sub(), re.search(), str.title() and float()   *)
(* are computed character by character.  Characters outside ASCII are      *)
(* written by code point ("U+2014" is the em-dash).                        *)
(* A float is a record: [k |-> "num", v |-> thousandths], [k |-> "nan"]    *)
(* or [k |-> "inf", neg |-> BOOLEAN]; None is [k |-> "none"].              *)
(***************************************************************************)
EXTENDS Integers, Sequences, FiniteSets, TLC

(***************************************************************************)
(* Characters                                                              *)
(***************************************************************************)
LowerChars == <<"a","b","c","d","e","f","g","h","i","j","k","l","m","n","o","p","q","r","s","t","u","v","w","x","y","z">>
UpperChars == <<"A","B","C","D","E","F","G","H","I","J","K","L","M","N","O","P","Q","R","S","T","U","V","W","X","Y","Z">>
DigitChars == <<"0","1","2","3","4","5","6","7","8","9">>

Range(s) == {s[i] : i \in DOMAIN s}
IndexIn(c, s) == CHOOSE i \in DOMAIN s : s[i] = c

\* the character classes, and the other case and the value of each character
LowerSet == Range(LowerChars)
UpperSet == Range(UpperChars)
DigitSet == Range(DigitChars)
UpperOf == [c \in LowerSet |-> UpperChars[IndexIn(c, LowerChars)]]
LowerOf == [c \in UpperSet |-> LowerChars[IndexIn(c, UpperChars)]]
ValueOf == [c \in DigitSet |-> IndexIn(c, DigitChars) - 1]

IsLower(c) == c \in LowerSet
IsUpper(c) == c \in UpperSet
IsCased(c) == IsLower(c) \/ IsUpper(c)
IsDigit(c) == c \in DigitSet
\* \s of re and the characters str.strip() removes
IsSpace(c) == c \in {" ", "\t", "\n", "\r"}
\* \w of re: the characters on whose edge \b matches
IsWordChar(c) == IsCased(c) \/ IsDigit(c) \/ c = "_"
ToUpper(c) == IF IsLower(c) THEN UpperOf[c] ELSE c
ToLower(c) == IF IsUpper(c) THEN LowerOf[c] ELSE c
DigitVal(c) == ValueOf[c]
upper(s) == [i \in DOMAIN s |-> ToUpper(s[i])]
lower(s) == [i \in DOMAIN s |-> ToLower(s[i])]

(***************************************************************************)
(* str methods and re.sub used by the helpers                              *)
(***************************************************************************)
RECURSIVE lstrip(_)
lstrip(s) ==
    IF s = <<>> THEN <<>>
    ELSE IF IsSpace(Head(s)) THEN lstrip(Tail(s)) ELSE s

RECURSIVE rstrip(_)
rstrip(s) ==
    IF s = <<>> THEN <<>>
    ELSE IF IsSpace(s[Len(s)]) THEN rstrip(SubSeq(s, 1, Len(s) - 1)) ELSE s

strip(s) == rstrip(lstrip(s))

\* re.sub(r"\s+", " ", s)
RECURSIVE collapse_ws(_)
collapse_ws(s) ==
    IF s = <<>> THEN <<>>
    ELSE IF IsSpace(Head(s)) THEN <<" ">> \o collapse_ws(lstrip(s))
    ELSE <<Head(s)>> \o collapse_ws(Tail(s))

Least(set) == CHOOSE j \in set : \A k \in set : j <= k
Greatest(set) == CHOOSE j \in set : \A k \in set : k <= j

\* str.splitlines(): the pieces between line breaks, no empty last piece
RECURSIVE splitlines(_)
split_at(s, i) == <<SubSeq(s, 1, i - 1)>> \o splitlines(SubSeq(s, i + 1, Len(s)))

split_at_first(s, breaks) == IF breaks = {} THEN <<s>> ELSE split_at(s, Least(breaks))

splitlines(s) ==
    IF s = <<>> THEN <<>> ELSE split_at_first(s, {i \in DOMAIN s : s[i] = "\n"})

\* "\n".join(lines)
RECURSIVE join_lines(_)
join_lines(lines) ==
    IF lines = <<>> THEN <<>>
    ELSE IF Len(lines) = 1 THEN lines[1]
    ELSE lines[1] \o <<"\n">> \o join_lines(Tail(lines))

\* str.title(): a cased character is upper-cased when the character before it
\* is not cased and lower-cased when it is
RECURSIVE title_from(_, _)
title_from(s, prev_cased) ==
    IF s = <<>> THEN <<>>
    ELSE <<IF prev_cased THEN ToLower(Head(s)) ELSE ToUpper(Head(s))>>
         \o title_from(Tail(s), IsCased(Head(s)))

title(s) == title_from(s, FALSE)

replace_commas(s) == SelectSeq(s, LAMBDA c : c # ",")

(***************************************************************************)
(* HELPERS (app.py 81-126)                                                  *)
(***************************************************************************)
NonEmpty(ln) == ln # <<>>

clean_line(ln) == collapse_ws(strip(ln))

\* [re.sub(r"\s+", " ", ln.strip()) for ln in lines]
clean_lines(lines) == [i \in DOMAIN lines |-> clean_line(lines[i])]

clean_address_block(text) ==
    IF text = <<>> THEN <<>>
    ELSE join_lines(SelectSeq(clean_lines(splitlines(text)), NonEmpty))

None == <<>>
Some(x) == <<x>>
\* `x or ""`
OrEmpty(opt) == IF opt = None THEN <<>> ELSE opt[1]

\* (W[Ii]|M[Nn]|I[Ll]) at s[i], s[i+1]
StateTokenAt(s, i) ==
    /\ i + 1 <= Len(s)
    /\ \/ s[i] = "W" /\ s[i + 1] \in {"I", "i"}
       \/ s[i] = "M" /\ s[i + 1] \in {"N", "n"}
       \/ s[i] = "I" /\ s[i + 1] \in {"L", "l"}

\* \b after the word character s[j]
WordBoundaryAfter(s, j) == j = Len(s) \/ ~IsWordChar(s[j + 1])

\* The ends e of group 1 for which ^(.*)\s+(W[Ii]|M[Nn]|I[Ll])\b matches with
\* one whitespace character at e+1 and the token at e+2, e+3.  A longer
\* whitespace run matches too, from a smaller e, and (.*) is greedy.
MatchEnds(s) ==
    {e \in 0 .. Len(s) :
        /\ e + 3 <= Len(s)
        /\ IsSpace(s[e + 1])
        /\ StateTokenAt(s, e + 2)
        /\ WordBoundaryAfter(s, e + 3)}

\* m.group(1) of re.search: the greedy (.*) takes the longest prefix
MatchGroup1(s) == SubSeq(s, 1, Greatest(MatchEnds(s)))

HasDigit(s) == \E i \in DOMAIN s : IsDigit(s[i])

\* variant: a matching line with a digit ends the scan (break for continue)
RECURSIVE scan_lines_stop_at_digit(_, _)
scan_lines_stop_at_digit(lines, i) ==
    IF i = 0 THEN None
    ELSE LET s == collapse_ws(lines[i])
         IN  IF MatchEnds(s) = {} THEN scan_lines_stop_at_digit(lines, i - 1)
             ELSE LET city_part == strip(MatchGroup1(s))
                  IN  IF HasDigit(city_part) THEN None
                      ELSE Some(title(city_part))

\* the for loop of extract_city over reversed(lines), from index i down
RECURSIVE scan_lines(_, _)
\* a line that matched, with city_part = m.group(1).strip()
city_or_continue(lines, i, city_part) ==
    IF HasDigit(city_part) THEN scan_lines(lines, i - 1) ELSE Some(title(city_part))

\* a line, with s = re.sub(r"\s+", " ", ln)
match_or_continue(lines, i, s) ==
    IF MatchEnds(s) = {} THEN scan_lines(lines, i - 1)
    ELSE city_or_continue(lines, i, strip(MatchGroup1(s)))

scan_lines(lines, i) ==
    IF i = 0 THEN None ELSE match_or_continue(lines, i, collapse_ws(lines[i]))

\* [ln.strip() for ln in lines]
strip_lines(lines) == [i \in DOMAIN lines |-> strip(lines[i])]

scan_reversed(lines) == scan_lines(lines, Len(lines))

extract_city(addr_block) ==
    scan_reversed(SelectSeq(strip_lines(splitlines(addr_block)), NonEmpty))

(***************************************************************************)
(* float(): an optional sign, then nan, inf or infinity in any case, or a  *)
(* decimal numeral.  The value of a numeral is kept in thousandths; the    *)
(* row texts of this model have at most three fraction digits and no       *)
(* exponent.                                                               *)
(***************************************************************************)
NoFloat == [k |-> "none"]
NaN == [k |-> "nan"]
Inf(neg) == [k |-> "inf", neg |-> neg]
Num(v) == [k |-> "num", v |-> v]

AllDigits(s) == \A i \in DOMAIN s : IsDigit(s[i])

RECURSIVE digits_value(_)
digits_value(s) ==
    IF s = <<>> THEN 0 ELSE digits_value(SubSeq(s, 1, Len(s) - 1)) * 10 + DigitVal(s[Len(s)])

\* the first three fraction digits, as thousandths
frac_thousandths(f) ==
    digits_value(SubSeq(f \o <<"0","0","0">>, 1, 3))

unsigned_float(u) ==
    IF lower(u) = <<"n","a","n">> THEN NaN
    ELSE IF lower(u) \in {<<"i","n","f">>, <<"i","n","f","i","n","i","t","y">>} THEN Inf(FALSE)
    ELSE LET dots == {i \in DOMAIN u : u[i] = "."}
         IN  IF dots = {}
             THEN IF u # <<>> /\ AllDigits(u) THEN Num(digits_value(u) * 1000) ELSE NoFloat
             ELSE IF Cardinality(dots) > 1 THEN NoFloat
             ELSE LET d == CHOOSE i \in dots : TRUE
                      ip == SubSeq(u, 1, d - 1)
                      fp == SubSeq(u, d + 1, Len(u))
                  IN  IF AllDigits(ip) /\ AllDigits(fp) /\ (ip # <<>> \/ fp # <<>>)
                      THEN Num(digits_value(ip) * 1000 + frac_thousandths(fp))
                      ELSE NoFloat

negate(x) ==
    IF x.k = "num" THEN Num(0 - x.v)
    ELSE IF x.k = "inf" THEN Inf(~x.neg)
    ELSE x

float(text) ==
    LET s == strip(text)
    IN  IF s = <<>> THEN NoFloat
        ELSE IF Head(s) = "-" THEN negate(unsigned_float(Tail(s)))
        ELSE IF Head(s) = "+" THEN unsigned_float(Tail(s))
        ELSE unsigned_float(s)

\* parse_miles: float() raising is the None result
parse_miles(s) == float(replace_commas(strip(s)))

\* a <= b on floats: every comparison with nan is false
FloatLe(a, b) ==
    IF a.k = "nan" \/ b.k = "nan" THEN FALSE
    ELSE IF a.k = "inf" THEN a.neg \/ (b.k = "inf" /\ ~b.neg)
    ELSE IF b.k = "inf" THEN ~b.neg
    ELSE a.v <= b.v

\* a > b on floats
FloatGt(a, b) ==
    IF a.k = "nan" \/ b.k = "nan" THEN FALSE
    ELSE IF a.k = "inf" THEN ~a.neg /\ ~(b.k = "inf" /\ ~b.neg)
    ELSE IF b.k = "inf" THEN b.neg
    ELSE a.v > b.v

RECURSIVE nat_text(_)
nat_text(n) ==
    IF n < 10 THEN <<DigitChars[n + 1]>>
    ELSE nat_text(n \div 10) \o <<DigitChars[(n % 10) + 1]>>

\* f"{x:.2f}" for a value kept in units of 1/scale (scale 1000 or 10000),
\* rounded to the nearest hundredth
format_2f(x, scale) ==
    IF x.k = "nan" THEN <<"n","a","n">>
    ELSE IF x.k = "inf" THEN (IF x.neg THEN <<"-","i","n","f">> ELSE <<"i","n","f">>)
    ELSE LET a == IF x.v < 0 THEN 0 - x.v ELSE x.v
             h == (a * 100 + scale \div 2) \div scale
             body == nat_text(h \div 100) \o <<".">> \o
                     <<DigitChars[((h % 100) \div 10) + 1], DigitChars[(h % 10) + 1]>>
         IN  IF x.v < 0 THEN <<"-">> \o body ELSE body

(***************************************************************************)
(* SETTINGS (app.py 14-49)                                                  *)
(***************************************************************************)
DAYS_AHEAD_INCLUSIVE == 8
MIN_MILES == Num(35000)

ALLOWED_CITIES ==
    { <<"M","i","l","w","a","u","k","e","e">>, <<"M","a","d","i","s","o","n">>, <<"F","i","t","c","h","b","u","r","g">>, <<"M","i","d","d","l","e","t","o","n">>, <<"M","o","n","o","n","a">>,
      <<"S","u","n"," ","P","r","a","i","r","i","e">>, <<"W","a","u","n","a","k","e","e">>, <<"V","e","r","o","n","a">>, <<"M","c","F","a","r","l","a","n","d">>, <<"D","e","F","o","r","e","s","t">>,
      <<"O","r","e","g","o","n">>, <<"S","t","o","u","g","h","t","o","n">>, <<"C","o","t","t","a","g","e"," ","G","r","o","v","e">>, <<"M","o","u","n","t"," ","H","o","r","e","b">>,
      <<"M","i","n","n","e","a","p","o","l","i","s">>, <<"E","d","i","n","a">>, <<"B","l","o","o","m","i","n","g","t","o","n">>, <<"B","u","r","n","s","v","i","l","l","e">>,
      <<"R","o","c","h","e","s","t","e","r">>, <<"S","t"," ","P","a","u","l">>, <<"S","a","i","n","t"," ","P","a","u","l">>, <<"S","a","i","n","t"," ","L","o","u","i","s"," ","P","a","r","k">>,
      <<"H","u","d","s","o","n">>, <<"C","h","i","c","a","g","o">> }

\* range(min(rows.count(), 200))
ROW_LIMIT == 200

(***************************************************************************)
(* Bounds of the model                                                     *)
(***************************************************************************)
\* rows the table shows in one poll
MaxRows == 2
\* the date window checked is today .. today + min(DAYS_AHEAD_INCLUSIVE, MaxDaysAhead)
MaxDaysAhead == 1
\* the count of send_telegram calls kept per trip key saturates here
MaxCount == 2

Min(a, b) == IF a <= b THEN a ELSE b

(***************************************************************************)
(* Dates: dt.date, today + timedelta(days=offset), strftime("%m/%d/%Y")    *)
(***************************************************************************)
StartDate == [y |-> 2025, m |-> 2, d |-> 28]

IsLeap(y) == y % 4 = 0 /\ (y % 100 # 0 \/ y % 400 = 0)

DaysInMonth(y, m) ==
    IF m = 2 THEN (IF IsLeap(y) THEN 29 ELSE 28)
    ELSE IF m \in {4, 6, 9, 11} THEN 30 ELSE 31

NextDay(date) ==
    IF date.d < DaysInMonth(date.y, date.m) THEN [date EXCEPT !.d = @ + 1]
    ELSE IF date.m < 12 THEN [date EXCEPT !.m = @ + 1, !.d = 1]
    ELSE [y |-> date.y + 1, m |-> 1, d |-> 1]

RECURSIVE add_days(_, _)
add_days(date, n) == IF n = 0 THEN date ELSE add_days(NextDay(date), n - 1)

\* a number zero-padded to the given width
RECURSIVE zero_pad(_, _)
zero_pad(n, width) ==
    IF width = 0 THEN <<>>
    ELSE zero_pad(n \div 10, width - 1) \o <<DigitChars[(n % 10) + 1]>>

format_date_mmddyyyy(date) ==
    zero_pad(date.m, 2) \o <<"/">> \o zero_pad(date.d, 2) \o <<"/">> \o zero_pad(date.y, 4)

(***************************************************************************)
(* Pricing and identity (app.py 112-123)                                   *)
(***************************************************************************)
\* variant: the miles under 5 are not floored at 0 (no max)
calc_trip_cost_unfloored(miles) ==
    IF miles.k = "nan" THEN Num(190000)
    ELSE IF miles.k = "inf" THEN (IF miles.neg THEN Num(190000) ELSE Inf(FALSE))
    ELSE Num(190000 + (miles.v - 5000) * 18)

\* The cost is kept in units of 1/10000 dollar.  max(0.0, nan) is 0.0: the
\* comparison that would replace the first argument is false.
calc_trip_cost(miles) ==
    IF miles.k = "nan" THEN Num(190000)
    ELSE IF miles.k = "inf" THEN (IF miles.neg THEN Num(190000) ELSE Inf(FALSE))
    ELSE LET extra == IF miles.v - 5000 > 0 THEN miles.v - 5000 ELSE 0
         IN  Num(190000 + extra * 18)

\* hashlib.sha256(raw).hexdigest(), taken to be injective: the digest is
\* identified by the text it was computed from
sha256_hexdigest(raw) == <<"sha256", raw>>

\* variant: miles enter the key in thousandths
trip_key_3dp(date_str, appt_time, pickup_time, pickup, dropoff, miles) ==
    sha256_hexdigest(date_str \o <<"|">> \o appt_time \o <<"|">> \o pickup_time \o <<"|">>
                     \o pickup \o <<"|">> \o dropoff \o <<"|">>
                     \o (IF miles.k = "num" THEN nat_text(miles.v) ELSE format_2f(miles, 1000)))

\* variant: the appointment time is left out of the key
trip_key_no_appt(date_str, appt_time, pickup_time, pickup, dropoff, miles) ==
    sha256_hexdigest(date_str \o <<"|">> \o pickup_time \o <<"|">>
                     \o pickup \o <<"|">> \o dropoff \o <<"|">> \o format_2f(miles, 1000))

trip_key(date_str, appt_time, pickup_time, pickup, dropoff, miles) ==
    sha256_hexdigest(date_str \o <<"|">> \o appt_time \o <<"|">> \o pickup_time \o <<"|">>
                     \o pickup \o <<"|">> \o dropoff \o <<"|">> \o format_2f(miles, 1000))

(***************************************************************************)
(* The table (app.py 250-295).  A row is its cell texts; a detached row is *)
(* one whose cells raise when read (the page re-rendered under the read).  *)
(***************************************************************************)
Row(cells) == [cells |-> cells, detached |-> FALSE]
DetachedRow(cells) == [cells |-> cells, detached |-> TRUE]

\* the dict appended for a row whose distance cell parsed to miles
trip_with(cells, miles) ==
    [appt_time |-> strip(cells[1]),
     pickup_time |-> strip(cells[2]),
     pickup_text |-> clean_address_block(strip(cells[3])),
     dropoff_text |-> clean_address_block(strip(cells[4])),
     miles |-> miles]

trip_dict(cells) == trip_with(cells, parse_miles(strip(cells[5])))

\* `if miles is None: continue`, else trips.append
append_or_skip(cells, miles) ==
    IF miles = NoFloat THEN <<>> ELSE <<trip_with(cells, miles)>>

\* one pass of the for loop: <<>> when the row is skipped (continue)
read_row(row) ==
    IF row.detached THEN <<>>
    ELSE IF Len(row.cells) < 5 THEN <<>>
    ELSE append_or_skip(row.cells, parse_miles(strip(row.cells[5])))

\* variant: the loop ends at the first skipped row (break for continue)
RECURSIVE read_rows_stop_at_bad(_, _)
read_rows_stop_at_bad(rows, n) ==
    IF n = 0 THEN <<>>
    ELSE IF \E i \in 1 .. n : read_row(rows[i]) = <<>>
         THEN read_rows_stop_at_bad(rows, (CHOOSE i \in 1 .. n : read_row(rows[i]) = <<>>) - 1)
         ELSE read_rows_stop_at_bad(rows, n - 1) \o read_row(rows[n])

\* `for i in range(n)`: each row is read once; the trips of the rows that are
\* not skipped, in row order
read_rows(rows, n) ==
    LET kept == SelectSeq([i \in 1 .. n |-> read_row(rows[i])], NonEmpty)
    IN  [i \in DOMAIN kept |-> kept[i][1]]

\* variant: every row is read (no min(rows.count(), 200))
read_trips_from_whole_table(rows) ==
    IF Len(rows) = 0 THEN <<>> ELSE read_rows(rows, Len(rows))

read_trips_from_table(rows) ==
    IF Len(rows) = 0 THEN <<>> ELSE read_rows(rows, Min(Len(rows), ROW_LIMIT))

(***************************************************************************)
(* The body of `for t in trips` (app.py 351-388)                           *)
(***************************************************************************)
\* `if miles <= MIN_MILES: continue`
passes_distance(miles) == ~FloatLe(miles, MIN_MILES)

pickup_city_of(t) == OrEmpty(extract_city(t.pickup_text))
dropoff_city_of(t) == OrEmpty(extract_city(t.dropoff_text))

\* variant: an address with no city line lets the trip through
passes_geography_absent_ok(pickup_city, dropoff_city) ==
    \/ pickup_city = <<>>
    \/ pickup_city \in ALLOWED_CITIES
    \/ dropoff_city \in ALLOWED_CITIES

\* variant: both cities have to be allowed (or for and)
passes_geography_both(pickup_city, dropoff_city) ==
    ~(pickup_city \notin ALLOWED_CITIES \/ dropoff_city \notin ALLOWED_CITIES)

\* `if (pickup_city not in ALLOWED_CITIES) and (dropoff_city not in ALLOWED_CITIES): continue`
passes_geography(pickup_city, dropoff_city) ==
    ~(pickup_city \notin ALLOWED_CITIES /\ dropoff_city \notin ALLOWED_CITIES)

\* the placeholders of the source's set literal: the empty string, the three
\* characters U+00E2 U+20AC U+201D, and the hyphen
LEG_PLACEHOLDERS == {<<>>, <<"U+00E2","U+20AC","U+201D">>, <<"-">>}

\* `"N/A" if s in {...} else s`
placeholder_to_na(s) == IF s \in LEG_PLACEHOLDERS THEN <<"N","/","A">> ELSE s

normalize_leg(text) == placeholder_to_na(strip(text))

key_of(t, date_str) ==
    trip_key(date_str, normalize_leg(t.appt_time), normalize_leg(t.pickup_time),
             t.pickup_text, t.dropoff_text, t.miles)

\* variant: the ledger is not consulted
has_seen_never(ledger, key) == FALSE

\* `if key in seen: continue`
has_seen(ledger, key) == key \in ledger

\* variant: the key is not recorded
mark_seen_lost(ledger, key) == ledger

\* variant: the ledger is reassigned to the one key
mark_seen_replace(ledger, key) == {key}

\* `seen.add(key)`
mark_seen(ledger, key) == ledger \cup {key}

\* `pickup_city or 'Unknown'`
city_or_unknown(city) == IF city = <<>> THEN <<"U","n","k","n","o","w","n">> ELSE city

\* msg: the fields the f-string puts into the text, and the key it is sent under
message_of(t, date_str, key, pickup_city, dropoff_city) ==
    [key |-> key,
     miles_text |-> format_2f(t.miles, 1000),
     date_str |-> date_str,
     leg_a |-> normalize_leg(t.appt_time),
     leg_b |-> normalize_leg(t.pickup_time),
     cost_text |-> format_2f(calc_trip_cost(t.miles), 10000),
     pickup_city |-> city_or_unknown(pickup_city),
     pickup_text |-> t.pickup_text,
     dropoff_city |-> city_or_unknown(dropoff_city),
     dropoff_text |-> t.dropoff_text]

alert_message(t, date_str) ==
    message_of(t, date_str, key_of(t, date_str), pickup_city_of(t), dropoff_city_of(t))

\* whether the loop body reaches `seen.add(key)` for t
alerts_on(t, date_str, ledger) ==
    /\ passes_distance(t.miles)
    /\ passes_geography(pickup_city_of(t), dropoff_city_of(t))
    /\ ~has_seen(ledger, key_of(t, date_str))

NoMsg == [key |-> <<>>]

\* One pass of the loop body for trip t: whether it alerts, the ledger after
\* it, and the msg it builds.  The cities and the key are computed once, in
\* the order of the source.
\* `continue`
skip_trip(ledger) == [alerts |-> FALSE, seen |-> ledger, msg |-> NoMsg]

\* 374-386: the dedup test, seen.add(key) and msg
step_with_key(t, date_str, ledger, key, pickup_city, dropoff_city) ==
    IF has_seen(ledger, key) THEN skip_trip(ledger)
    ELSE [alerts |-> TRUE,
          seen |-> mark_seen(ledger, key),
          msg |-> message_of(t, date_str, key, pickup_city, dropoff_city)]

\* 360-374: the geography gate, then the key
step_with_cities(t, date_str, ledger, pickup_city, dropoff_city) ==
    IF ~passes_geography(pickup_city, dropoff_city) THEN skip_trip(ledger)
    ELSE step_with_key(t, date_str, ledger, key_of(t, date_str), pickup_city, dropoff_city)

\* 352-358: the distance gate, then the cities
trip_step(t, date_str, ledger) ==
    IF ~passes_distance(t.miles) THEN skip_trip(ledger)
    ELSE step_with_cities(t, date_str, ledger, pickup_city_of(t), dropoff_city_of(t))

\* the outcome of a pass put before the outcome of the passes after it
passes_from(step, rest) ==
    [seen |-> rest.seen,
     msgs |-> (IF step.alerts THEN <<step.msg>> ELSE <<>>) \o rest.msgs]

\* variant: the loop ends at the first trip that does not alert (break for
\* continue)
RECURSIVE process_trips_break(_, _, _)
break_after(step, ts, date_str) ==
    IF step.alerts THEN passes_from(step, process_trips_break(ts, date_str, step.seen))
    ELSE [seen |-> step.seen, msgs |-> <<>>]

process_trips_break(ts, date_str, ledger) ==
    IF ts = <<>> THEN [seen |-> ledger, msgs |-> <<>>]
    ELSE break_after(trip_step(Head(ts), date_str, ledger), Tail(ts), date_str)

\* `for t in trips:` run to its end from a ledger: the ledger after it and the
\* msgs passed to send_telegram, in order
RECURSIVE process_trips(_, _, _)
go_on_after(step, ts, date_str) ==
    passes_from(step, process_trips(ts, date_str, step.seen))

process_trips(ts, date_str, ledger) ==
    IF ts = <<>> THEN [seen |-> ledger, msgs |-> <<>>]
    ELSE go_on_after(trip_step(Head(ts), date_str, ledger), Tail(ts), date_str)


(***************************************************************************)
(* The rows the marketplace can show.  BaseRow is the row of the           *)
(* end-to-end scenario; the others differ from it in one cell.             *)
(***************************************************************************)
MadisonPickup == <<"1","2","3"," ","M","a","i","n"," ","S","t","\n","M","a","d","i","s","o","n"," ","W","I"," ","5","3","7","0","3">>
ChicagoDropoff == <<"4","5","6"," ","O","a","k"," ","A","v","e","\n","C","h","i","c","a","g","o"," ","I","L"," ","6","0","6","0","1">>
RacinePickup == <<"1"," ","L","a","k","e"," ","S","t","\n","R","a","c","i","n","e"," ","W","I"," ","5","3","4","0","3">>
KenoshaDropoff == <<"2"," ","B","a","y"," ","R","d","\n","K","e","n","o","s","h","a"," ","W","I"," ","5","3","1","4","0">>

TripRow(appt, pickup_time, pickup, dropoff, miles) ==
    Row(<<appt, pickup_time, pickup, dropoff, miles>>)

BaseRow == TripRow(<<"U+2014">>, <<"8",":","1","5"," ","A","M">>, MadisonPickup, ChicagoDropoff, <<"4","0",".","0","0">>)
HyphenRow == TripRow(<<"-">>, <<"8",":","1","5"," ","A","M">>, MadisonPickup, ChicagoDropoff, <<"4","0",".","0","0">>)
BlankRow == TripRow(<<" "," ">>, <<"8",":","1","5"," ","A","M">>, MadisonPickup, ChicagoDropoff, <<"4","0",".","0","0">>)
TimedRow == TripRow(<<" ","9",":","0","0"," ","A","M"," ">>, <<"8",":","1","5"," ","A","M">>, MadisonPickup, ChicagoDropoff, <<"4","0",".","0","0">>)
MessyRow == TripRow(<<" ","-"," ">>, <<"8",":","1","5"," ","A","M">>, <<" ","1","2","3"," "," "," ","M","a","i","n"," ","S","t"," ","\n","\n"," "," ","M","a","d","i","s","o","n"," "," ","W","I"," ","5","3","7","0","3"," ">>,
                    ChicagoDropoff, <<"4","0",".","0","0">>)
ThousandthRow == TripRow(<<"-">>, <<"8",":","1","5"," ","A","M">>, MadisonPickup, ChicagoDropoff, <<"4","0",".","0","0","1">>)
FourThousandthsRow == TripRow(<<"-">>, <<"8",":","1","5"," ","A","M">>, MadisonPickup, ChicagoDropoff, <<"4","0",".","0","0","4">>)
HundredthRow == TripRow(<<"-">>, <<"8",":","1","5"," ","A","M">>, MadisonPickup, ChicagoDropoff, <<"4","0",".","0","1">>)
AtThresholdRow == TripRow(<<"-">>, <<"8",":","1","5"," ","A","M">>, MadisonPickup, ChicagoDropoff, <<"3","5",".","0">>)
JustOverRow == TripRow(<<"-">>, <<"8",":","1","5"," ","A","M">>, MadisonPickup, ChicagoDropoff, <<"3","5",".","0","1">>)
NanRow == TripRow(<<"-">>, <<"8",":","1","5"," ","A","M">>, MadisonPickup, ChicagoDropoff, <<"n","a","n">>)
CommaRow == TripRow(<<"-">>, <<"8",":","1","5"," ","A","M">>, MadisonPickup, ChicagoDropoff, <<"1",",","0","4","0",".","5","0">>)
UnparsedRow == TripRow(<<"-">>, <<"8",":","1","5"," ","A","M">>, MadisonPickup, ChicagoDropoff, <<"N","/","A">>)
ShortRow == Row(<<<<"-">>, <<"8",":","1","5"," ","A","M">>, MadisonPickup, <<"4","0",".","0","0">>>>)
StaleRow == DetachedRow(<<<<"-">>, <<"8",":","1","5"," ","A","M">>, MadisonPickup, ChicagoDropoff, <<"4","0",".","0","0">>>>)
UnmatchedRow == TripRow(<<"-">>, <<"8",":","1","5"," ","A","M">>, RacinePickup, KenoshaDropoff, <<"4","0",".","0","0">>)
NoCityRow == TripRow(<<"-">>, <<"8",":","1","5"," ","A","M">>, <<"U","n","i","t"," ","5","\n","L","a","k","e","s","i","d","e"," ","C","l","i","n","i","c">>, <<"P","O"," ","B","o","x"," ","9">>, <<"4","0",".","0","0">>)

\* two rows whose time cells hold a "|": the note "ASAP" is at the end of the
\* appointment cell of one and at the start of the pickup cell of the other
PipeApptRow == TripRow(<<"9",":","0","0"," ","A","M","|","A","S","A","P">>, <<"8",":","1","5"," ","A","M">>, MadisonPickup, ChicagoDropoff, <<"4","0",".","0","0">>)
PipePickupRow == TripRow(<<"9",":","0","0"," ","A","M">>, <<"A","S","A","P","|","8",":","1","5"," ","A","M">>, MadisonPickup, ChicagoDropoff, <<"4","0",".","0","0">>)

\* a row whose pickup address has a street line with a state token below the
\* city line, and whose dropoff address has two city lines
SkipLinePickup == <<"V","e","r","o","n","a"," ","W","I"," ","5","3","5","9","3","\n","1","5","0","0"," ","H","w","y"," ","M","n">>
TwoCityDropoff == <<"K","e","n","o","s","h","a"," ","W","I"," ","5","3","1","4","0","\n","R","a","c","i","n","e"," ","W","I"," ","5","3","4","0","3">>
SkipLineRow == TripRow(<<"9",":","0","0"," ","A","M">>, <<"8",":","1","5"," ","A","M">>, SkipLinePickup, TwoCityDropoff, <<"4","0",".","0","0">>)

\* rows whose pickup city line has the state token in another letter case
TokenAddress(city, token) == <<"1","2"," ","E","l","m"," ","S","t","\n">> \o city \o <<" ">> \o token \o <<" ","5","3","7","0","3">>

TokenRow(token) ==
    TripRow(<<"9",":","0","0"," ","A","M">>, <<"8",":","1","5"," ","A","M">>, TokenAddress(<<"M","a","d","i","s","o","n">>, token), KenoshaDropoff, <<"4","0",".","0","0">>)

MixedTokenRow == TokenRow(<<"W","i">>)
LowerTokenRow == TokenRow(<<"w","i">>)

\* a row whose pickup address has the city line "<city> WI 53703", the city
\* written as listed, in upper case or in lower case
LetterCases == {"listed", "upper", "lower"}

InCase(name, how) ==
    IF how = "upper" THEN upper(name) ELSE IF how = "lower" THEN lower(name) ELSE name

CityAddress(name, how) == <<"1","2"," ","E","l","m"," ","S","t","\n">> \o InCase(name, how) \o <<" ","W","I"," ","5","3","7","0","3">>

CityRow(name, how) ==
    TripRow(<<"9",":","0","0"," ","A","M">>, <<"8",":","1","5"," ","A","M">>, CityAddress(name, how), KenoshaDropoff, <<"4","0",".","0","0">>)

McFarlandRow == CityRow(<<"M","c","F","a","r","l","a","n","d">>, "listed")
DeForestRow == CityRow(<<"D","e","F","o","r","e","s","t">>, "upper")
UpperMadisonRow == CityRow(<<"M","a","d","i","s","o","n">>, "upper")
LowerSunPrairieRow == CityRow(<<"S","u","n"," ","P","r","a","i","r","i","e">>, "lower")

\* the cleaned pickup address of every city row
CityAddresses ==
    {clean_address_block(CityAddress(name, how)) : name \in ALLOWED_CITIES, how \in LetterCases}

\* rows that a run shows together with HyphenRow
PairedRows ==
    { BaseRow, BlankRow, MessyRow, ThousandthRow, FourThousandthsRow, HundredthRow, UnparsedRow, ShortRow,
      StaleRow, AtThresholdRow }

\* rows that a run shows alone
SingleRows ==
    { HyphenRow, TimedRow, JustOverRow, NanRow, CommaRow, UnmatchedRow, NoCityRow,
      McFarlandRow, DeForestRow, UpperMadisonRow, LowerSunPrairieRow, SkipLineRow,
      MixedTokenRow, LowerTokenRow }

\* rows that a run shows together, without HyphenRow
OtherPairs == {{PipeApptRow, PipePickupRow}}

\* what one run of the watcher can be shown
Pools == {{HyphenRow, r} : r \in PairedRows} \cup {{r} : r \in SingleRows} \cup OtherPairs

\* the tables of at most MaxRows rows over a pool, in every order
Snapshots(rows) == UNION {[1 .. n -> rows] : n \in 0 .. MaxRows}

\* a row without cells
SpacerRow == Row(<<>>)

\* the pools whose tables can be long: ROW_LIMIT - 1 rows without cells come
\* first, so that the first row over the pool is the last one within the rows
\* that are read
LongPools == {{HyphenRow, AtThresholdRow}}

LeadingRows == [i \in 1 .. ROW_LIMIT - 1 |-> SpacerRow]

\* the tables a read of the page can find
Tables(rows) ==
    Snapshots(rows) \cup
        (IF rows \in LongPools THEN {LeadingRows \o s : s \in Snapshots(rows)} ELSE {})

(***************************************************************************)
(* State                                                                   *)
(***************************************************************************)
VARIABLES
    page,       \* what the browser shows: "login" or "marketplace"
    pc,         \* where main() is
    today,      \* `today` of the current cycle
    offset,     \* `offset` of the for loop over the window
    pool,       \* the rows the marketplace holds during this run
    snapshot,   \* the rows of the table at the last read
    trips,      \* `trips`
    idx,        \* the position of `for t in trips`
    seen,       \* `seen`
    pending,    \* `msg`, built and not yet passed to send_telegram
    sent,       \* per trip key: the number of send_telegram(msg) calls, and the msg
    last_status \* how the last send_telegram(msg) call for this table ended

vars == <<page, pc, today, offset, pool, snapshot, trips, idx, seen, pending, sent, last_status>>

is_login_page(p) == p = "login"

\* dt.date.today(): the run stays within one day
date_today == StartDate

LastOffset == Min(DAYS_AHEAD_INCLUSIVE, MaxDaysAhead)

date_str_at(day, off) == format_date_mmddyyyy(add_days(day, off))

\* send_telegram(msg): one more call for the key, with its outcome
record_send(log, msg) ==
    IF msg.key \in DOMAIN log
    THEN [log EXCEPT ![msg.key] = [n |-> Min(@.n + 1, MaxCount), msg |-> msg]]
    ELSE log @@ (msg.key :> [n |-> 1, msg |-> msg])

Init ==
    /\ page \in {"login", "marketplace"}
    /\ pc = "loop"
    /\ today = date_today
    /\ offset = 0
    /\ pool \in Pools
    /\ snapshot = <<>>
    /\ trips = <<>>
    /\ idx = 1
    /\ seen = {}
    /\ pending = NoMsg
    /\ sent = <<>>
    /\ last_status = "none"

(***************************************************************************)
(* main(): the while loop (app.py 321-413)                                 *)
(***************************************************************************)
\* 324-327: on the login page the loop sleeps and starts over
LoginWait ==
    /\ pc = "loop"
    /\ is_login_page(page)
    /\ UNCHANGED vars

\* 330-333: today = dt.date.today(), and the for loop over the window starts
StartCycle ==
    /\ pc = "loop"
    /\ ~is_login_page(page)
    /\ today' = date_today
    /\ offset' = 0
    /\ pc' = "filter"
    /\ UNCHANGED <<page, pool, snapshot, trips, idx, seen, pending, sent, last_status>>

\* 336-342: set_filter_date_and_apply finds no date input on the login page
\* and raises; on the marketplace the Apply Filter click can time out
ApplyFilter ==
    /\ pc = "filter"
    /\ \/ /\ ~is_login_page(page)
          /\ pc' = "read"
       \/ pc' = "except"
    /\ UNCHANGED <<page, today, offset, pool, snapshot, trips, idx, seen, pending, sent, last_status>>

\* 344-349: the table is read; with no table rows the result is empty; a
\* failure of the page outside the per-row try raises
ReadTable ==
    /\ pc = "read"
    /\ \/ /\ \E rows \in Tables(pool) :
                /\ is_login_page(page) => rows = <<>>
                /\ snapshot' = rows
                /\ trips' = read_trips_from_table(rows)
          /\ idx' = 1
          /\ pc' = "trips"
       \/ /\ pc' = "except"
          /\ UNCHANGED <<snapshot, trips, idx>>
    /\ UNCHANGED <<page, today, offset, pool, seen, pending, sent, last_status>>

\* 351-387: one pass of the loop body, up to print(msg), which is taken to succeed
ProcessTrip ==
    /\ pc = "trips"
    /\ idx <= Len(trips)
    /\ \E step \in {trip_step(trips[idx], date_str_at(today, offset), seen)} :
           IF step.alerts
           THEN /\ seen' = step.seen
                /\ pending' = step.msg
                /\ pc' = "send"
                /\ UNCHANGED idx
           ELSE /\ idx' = idx + 1
                /\ UNCHANGED <<seen, pending, pc>>
    /\ UNCHANGED <<page, today, offset, pool, snapshot, trips, sent, last_status>>

\* variant: an exception of the post leaves send_telegram and the trip loop
after_send_telegram_raising(status) == IF status = "exception" THEN "except" ELSE "trips"

\* 66-75: a status other than 200 is printed inside the try and an exception
\* is caught by `except Exception`; either way send_telegram returns and the
\* trip loop goes on
after_send_telegram(status) == "trips"

\* 388, 60-75: send_telegram(msg) posts; a status other than 200 and an
\* exception are printed and the call returns
SendTelegram ==
    /\ pc = "send"
    /\ sent' = record_send(sent, pending)
    /\ last_status' \in {"200", "not200", "exception"}
    /\ pending' = NoMsg
    /\ idx' = idx + 1
    /\ pc' = after_send_telegram(last_status')
    /\ UNCHANGED <<page, today, offset, pool, snapshot, trips, seen>>

\* 390, 335: the date has been viewed; the next offset, or the end of the window.
\* `trips`, the loop position and the status of the last post are not read again
\* before the next read of the table, and are cleared here.
NextDate ==
    /\ pc = "trips"
    /\ idx > Len(trips)
    /\ IF offset < LastOffset
       THEN offset' = offset + 1 /\ pc' = "filter"
       ELSE offset' = offset /\ pc' = "return"
    /\ snapshot' = <<>>
    /\ trips' = <<>>
    /\ idx' = 1
    /\ last_status' = "none"
    /\ UNCHANGED <<page, today, pool, seen, pending, sent>>

\* 393-405: back to today (failures passed over), then page.reload()
FinishCycle ==
    /\ pc = "return"
    /\ \/ pc' = "loop"
       \/ pc' = "except"
    /\ UNCHANGED <<page, today, offset, pool, snapshot, trips, idx, seen, pending, sent, last_status>>

\* variant: the handler is inside the for loop, and the same date is tried again
resume_at_same_date == "filter"

\* 321, 411-413: the handler belongs to the try that is the body of
\* `while True`, so after it the loop body starts again from its first line
resume_after_exception == "loop"

\* 411-413: the error is printed and the loop starts over after 5 seconds
Recover ==
    /\ pc = "except"
    /\ pc' = resume_after_exception
    /\ UNCHANGED <<page, today, offset, pool, snapshot, trips, idx, seen, pending, sent, last_status>>

\* 407-410, 415: Ctrl-C ends the loop and the browser context is closed; the
\* locals of the loop are gone, the ledger and an unsent msg are kept as they were
KeyboardInterrupt ==
    /\ pc # "stopped"
    /\ pc' = "stopped"
    /\ page' = "closed"
    /\ offset' = 0
    /\ snapshot' = <<>>
    /\ trips' = <<>>
    /\ idx' = 1
    /\ last_status' = "none"
    /\ UNCHANGED <<today, pool, seen, pending, sent>>

(***************************************************************************)
(* The world around the watcher                                            *)
(***************************************************************************)
SessionExpires ==
    /\ pc # "stopped"
    /\ page = "marketplace"
    /\ page' = "login"
    /\ UNCHANGED <<pc, today, offset, pool, snapshot, trips, idx, seen, pending, sent, last_status>>

UserLogsIn ==
    /\ pc # "stopped"
    /\ page = "login"
    /\ page' = "marketplace"
    /\ UNCHANGED <<pc, today, offset, pool, snapshot, trips, idx, seen, pending, sent, last_status>>

Next ==
    \/ LoginWait
    \/ StartCycle
    \/ ApplyFilter
    \/ ReadTable
    \/ ProcessTrip
    \/ SendTelegram
    \/ NextDate
    \/ FinishCycle
    \/ Recover
    \/ KeyboardInterrupt
    \/ SessionExpires
    \/ UserLogsIn

Spec == Init /\ [][Next]_vars

(***************************************************************************)
(* Properties                                                              *)
(***************************************************************************)
\* every msg passed to send_telegram or built and waiting to be passed
Alerts ==
    {sent[k].msg : k \in DOMAIN sent} \cup (IF pending = NoMsg THEN {} ELSE {pending})

current_date_str == date_str_at(today, offset)

\* the cleaned address texts of the rows, and extract_city of each
AddressTexts ==
    {clean_address_block(strip(r.cells[i])) :
        r \in {x \in UNION Pools : Len(x.cells) >= 5}, i \in {3, 4}}

CityOfAddress == [a \in AddressTexts |-> extract_city(a)]

CityOf(text) == IF text \in AddressTexts THEN CityOfAddress[text] ELSE extract_city(text)

\* the city extract_city finds in an address is one of ALLOWED_CITIES
CityAllowed(text) ==
    /\ CityOf(text) # None
    /\ CityOf(text)[1] \in ALLOWED_CITIES

\* the snapshot has been worked through
SnapshotDone == pc = "trips" /\ idx > Len(trips)

\* C1: over any sequence of polls, send_telegram is called at most once per
\* trip key; a snapshot processed again for the same date sends nothing.
C1_AtMostOncePerFingerprint ==
    \A k \in DOMAIN sent : sent[k].n <= 1

\* C1 witness: a poll starts on a snapshot of two trips with different keys,
\* both sent once in an earlier poll of this date
C1_Witness ==
    /\ pc = "trips"
    /\ idx = 1
    /\ Len(trips) = 2
    /\ key_of(trips[1], current_date_str) # key_of(trips[2], current_date_str)
    /\ \A i \in 1 .. 2 :
          /\ key_of(trips[i], current_date_str) \in DOMAIN sent
          /\ sent[key_of(trips[i], current_date_str)].n = 1

\* C2: the key is in the ledger when send_telegram is called with its msg, a
\* failed send leaves it there, and no key is sent twice, whatever the outcome
\* of its send was.
C2_LedgerBeforeDispatch ==
    [][ /\ (pc = "send" /\ sent' # sent) =>
              /\ pending.key \in seen
              /\ pending.key \notin DOMAIN sent
              /\ (last_status' \in {"not200", "exception"} => pending.key \in seen')
        /\ \A k \in DOMAIN sent' : k \in seen' /\ sent'[k].n <= 1 ]_vars

\* C2 witness: the only send so far failed, and its trip is read again
C2_Witness ==
    /\ last_status \in {"not200", "exception"}
    /\ pc = "trips"
    /\ idx <= Len(trips)
    /\ Cardinality(DOMAIN sent) = 1
    /\ key_of(trips[idx], current_date_str) \in DOMAIN sent
    /\ key_of(trips[idx], current_date_str) \in seen

\* C3: the ledger starts empty and every step leaves it a superset of what it was.
C3_LedgerGrowsOnly ==
    /\ seen = {}
    /\ [][seen \subseteq seen']_vars

\* C3 witness: an exception is being recovered from with two keys in the ledger
C3_Witness ==
    /\ pc = "except"
    /\ Cardinality(seen) >= 2

\* C4: a key is recorded and a msg is sent only for a trip whose miles are
\* strictly greater than MIN_MILES, for every value parse_miles returns.
C4_StrictDistanceGate ==
    [][(seen' # seen \/ sent' # sent) => FloatGt(trips[idx].miles, MIN_MILES)]_vars

\* C5: every msg is for a trip whose pickup or dropoff city is in
\* ALLOWED_CITIES, an absent city not counting, and the ledger holds the keys
\* of these trips only.
C5_GeographyGate ==
    /\ \A m \in Alerts : CityAllowed(m.pickup_text) \/ CityAllowed(m.dropoff_text)
    /\ seen = {m.key : m \in Alerts}

\* C5 witness: a trip over the distance threshold with no city in either
\* address has been passed over
C5_Witness ==
    /\ pc = "trips"
    /\ idx = 2
    /\ passes_distance(trips[1].miles)
    /\ CityOf(trips[1].pickup_text) = None
    /\ CityOf(trips[1].dropoff_text) = None
    /\ seen = {}

\* C6: a trip over the threshold whose pickup address has a city line naming
\* a city of ALLOWED_CITIES, in any letter case, is in the ledger once the loop
\* body has passed it.
C6_AllowedCityAlerted ==
    pc = "trips" =>
        \A i \in 1 .. (idx - 1) :
            (trips[i].pickup_text \in CityAddresses /\ FloatGt(trips[i].miles, MIN_MILES))
                => key_of(trips[i], current_date_str) \in seen

\* C7: the loop body for a trip that fails the distance gate or the geography
\* gate, or whose key is in the ledger, sends nothing and leaves the ledger as
\* it was.
C7_RejectedTripLeavesNoTrace ==
    [][ ( /\ pc = "trips"
          /\ idx <= Len(trips)
          /\ \/ ~FloatGt(trips[idx].miles, MIN_MILES)
             \/ ~(CityAllowed(trips[idx].pickup_text) \/ CityAllowed(trips[idx].dropoff_text))
             \/ key_of(trips[idx], current_date_str) \in seen )
        => (seen' = seen /\ sent' = sent /\ pending' = pending /\ pc' # "send") ]_vars

\* a row read_trips_from_table can turn into a trip
Extractable(row) ==
    /\ ~row.detached
    /\ Len(row.cells) >= 5
    /\ parse_miles(row.cells[5]) # NoFloat

ExtractableRows == {r \in UNION Pools : Extractable(r)}

TripOfRow == [r \in ExtractableRows |-> trip_dict(r.cells)]

IsExtractable(row) == row \in ExtractableRows

\* C8: rows with fewer than 5 cells and rows whose distance cell is no number
\* are skipped without raising; `trips` is the other rows, in row order.
C8_MalformedRowsSkipped ==
    pc \in {"trips", "send"} =>
        LET good == SelectSeq(SubSeq(snapshot, 1, Min(Len(snapshot), ROW_LIMIT)), IsExtractable)
        IN  /\ Len(trips) = Len(good)
            /\ \A i \in 1 .. Len(good) : trips[i] = TripOfRow[good[i]]
            /\ \A i \in 1 .. Len(trips) : trips[i].miles # NoFloat

\* C8 witness: the first row's distance cell is no number and the second row
\* is the one trip
C8_Witness ==
    /\ pc = "trips"
    /\ Len(snapshot) = 2
    /\ Len(snapshot[1].cells) >= 5
    /\ parse_miles(snapshot[1].cells[5]) = NoFloat
    /\ IsExtractable(snapshot[2])
    /\ Len(trips) = 1

\* C9: a blank, "-" or em-dash time text is "N/A" in the key and in the msg.
C9_PlaceholdersNormalized ==
    \A m \in Alerts :
        /\ m.leg_a \notin {<<>>, <<"-">>, <<"U+2014">>}
        /\ m.leg_b \notin {<<>>, <<"-">>, <<"U+2014">>}

\* two trips alike in everything but miles
SameButMiles(a, b) ==
    /\ normalize_leg(a.appt_time) = normalize_leg(b.appt_time)
    /\ normalize_leg(a.pickup_time) = normalize_leg(b.pickup_time)
    /\ a.pickup_text = b.pickup_text
    /\ a.dropoff_text = b.dropoff_text

Qualifies(t) ==
    /\ passes_distance(t.miles)
    /\ CityAllowed(t.pickup_text) \/ CityAllowed(t.dropoff_text)

\* C10: of two qualifying trips of one snapshot that differ in miles only,
\* those whose miles have the same two-decimal text share one key and one
\* send, and those whose miles differ by 0.01 have two keys and two sends.
C10_MilesCollapseToTwoDecimals ==
    SnapshotDone =>
        \A i, j \in DOMAIN trips :
            (Qualifies(trips[i]) /\ Qualifies(trips[j]) /\ SameButMiles(trips[i], trips[j])
             /\ trips[i].miles.k = "num" /\ trips[j].miles.k = "num") =>
                LET ki == key_of(trips[i], current_date_str)
                    kj == key_of(trips[j], current_date_str)
                IN  /\ ki \in DOMAIN sent /\ sent[ki].n = 1
                    /\ format_2f(trips[i].miles, 1000) = format_2f(trips[j].miles, 1000)
                          => ki = kj
                    /\ trips[i].miles.v - trips[j].miles.v = 10
                          => ki # kj

\* C10 witness: 40.00 and 40.001 miles in one snapshot, one key sent
C10_Witness ==
    /\ SnapshotDone
    /\ Len(trips) = 2
    /\ SameButMiles(trips[1], trips[2])
    /\ trips[1].miles = Num(40000)
    /\ trips[2].miles = Num(40001)
    /\ Cardinality(DOMAIN sent) = 1

\* the date texts of the window, and the key of every trip on every date
WindowDateStrs == {date_str_at(date_today, off) : off \in 0 .. LastOffset}

KeyOfTrip ==
    [t \in {TripOfRow[r] : r \in ExtractableRows}, d \in WindowDateStrs |-> key_of(t, d)]

\* the texts that enter the key beside the miles
KeyFields(t, date_str) ==
    <<date_str, normalize_leg(t.appt_time), normalize_leg(t.pickup_time),
      t.pickup_text, t.dropoff_text>>

HasPipe(text) == "|" \in Range(text)

PipeFree(t) == \A i \in 1 .. 5 : ~HasPipe(KeyFields(t, <<>>)[i])

\* the trips the table can hold
ReadableTrips == {TripOfRow[r] : r \in ExtractableRows}

\* whether two trips have the same key, on some dates, although the date or
\* one of the four texts of the key differs
SameKeyFor ==
    [t1 \in ReadableTrips, t2 \in ReadableTrips |->
        \E d1, d2 \in WindowDateStrs :
            /\ d1 # d2 \/ KeyFields(t1, <<>>) # KeyFields(t2, <<>>)
            /\ KeyOfTrip[t1, d1] = KeyOfTrip[t2, d2]]

\* the same, for two trips that pass both gates
Collisions ==
    [t1 \in ReadableTrips, t2 \in ReadableTrips |->
        Qualifies(t1) /\ Qualifies(t2) /\ SameKeyFor[t1, t2]]

\* the same, for two such trips whose times and addresses hold no "|"
CollisionsWithoutPipe ==
    [t1 \in ReadableTrips, t2 \in ReadableTrips |->
        PipeFree(t1) /\ PipeFree(t2) /\ Collisions[t1, t2]]

\* C11 as stated: two qualifying trips that differ in the date or in one of
\* the four texts of the key never have the same key.
C11_KeyUnambiguous ==
    pc \in {"trips", "send"} =>
        \A i, j \in DOMAIN trips : ~Collisions[trips[i], trips[j]]

\* C11, amended: two qualifying trips whose times and addresses hold no "|"
\* and that differ in the date or in one of the four texts of the key never
\* have the same key.
C11_KeyUnambiguousWithoutPipe ==
    pc \in {"trips", "send"} =>
        \A i, j \in DOMAIN trips : ~CollisionsWithoutPipe[trips[i], trips[j]]

\* C11 witness: a snapshot of two qualifying trips without "|" that differ in
\* the appointment time only has been worked through, and both keys are in
\* the ledger
C11_Witness ==
    /\ SnapshotDone
    /\ Len(trips) = 2
    /\ Qualifies(trips[1]) /\ Qualifies(trips[2])
    /\ PipeFree(trips[1]) /\ PipeFree(trips[2])
    /\ normalize_leg(trips[1].appt_time) # normalize_leg(trips[2].appt_time)
    /\ KeyFields(trips[1], <<>>)[3] = KeyFields(trips[2], <<>>)[3]
    /\ trips[1].pickup_text = trips[2].pickup_text
    /\ trips[1].dropoff_text = trips[2].dropoff_text
    /\ KeyOfTrip[trips[1], current_date_str] \in seen
    /\ KeyOfTrip[trips[2], current_date_str] \in seen

\* the orders a sequence can be put in
Orders(ts) ==
    {[i \in 1 .. Len(ts) |-> ts[q[i]]] :
        q \in {f \in [1 .. Len(ts) -> 1 .. Len(ts)] : \A i, j \in 1 .. Len(ts) : f[i] = f[j] => i = j}}

\* the table has just been read
SnapshotRead == pc = "trips" /\ idx = 1

\* C12 as stated: from the ledger at hand, the loop run over any order of the
\* trips of the snapshot sends the same set of msgs and leaves the same ledger.
C12_OrderIndependent ==
    SnapshotRead =>
        \A here \in {process_trips(trips, current_date_str, seen)} :
            \A q \in Orders(trips) :
                \A there \in {process_trips(q, current_date_str, seen)} :
                    /\ Range(there.msgs) = Range(here.msgs)
                    /\ there.seen = here.seen

\* C12, amended: from the ledger at hand, the loop run over any order of the
\* trips of the snapshot sends msgs for the same set of keys, one msg per key,
\* and leaves the same ledger.
C12_OrderIndependentKeys ==
    SnapshotRead =>
        \A here \in {process_trips(trips, current_date_str, seen)} :
            \A q \in Orders(trips) :
                \A there \in {process_trips(q, current_date_str, seen)} :
                    /\ {m.key : m \in Range(there.msgs)} = {m.key : m \in Range(here.msgs)}
                    /\ Len(there.msgs) = Len(here.msgs)
                    /\ there.seen = here.seen

\* C12 witness: a snapshot of two different trips has just been read, one of
\* them alerts from the ledger at hand and the other does not
C12_Witness ==
    /\ SnapshotRead
    /\ Len(trips) = 2
    /\ trips[1] # trips[2]
    /\ seen # {}
    /\ ~alerts_on(trips[1], current_date_str, seen)
    /\ alerts_on(trips[2], current_date_str, seen)

PostFailures == {"not200", "exception"}

\* C13: when send_telegram fails for one trip (a status other than 200, or an
\* exception), the loop goes on with the next trip of the same snapshot, and
\* once the snapshot is worked through every qualifying trip of it is in the
\* ledger and has been passed to send_telegram.
C13_FailureDoesNotStopSnapshot ==
    /\ [][ (pc = "send" /\ pc' \notin {"send", "stopped"} /\ last_status' \in PostFailures)
            => (pc' = "trips" /\ idx' = idx + 1 /\ trips' = trips /\ seen' = seen
                /\ offset' = offset) ]_vars
    /\ [](SnapshotDone =>
            \A i \in DOMAIN trips :
                Qualifies(trips[i]) =>
                    /\ KeyOfTrip[trips[i], current_date_str] \in seen
                    /\ KeyOfTrip[trips[i], current_date_str] \in DOMAIN sent)

\* C13 witness: the post for the first trip of a snapshot failed, and the
\* second trip, which qualifies and has another key, is in the ledger with its
\* msg about to be posted
C13_Witness ==
    /\ pc = "send"
    /\ idx = 2
    /\ Len(trips) = 2
    /\ last_status \in PostFailures
    /\ Qualifies(trips[1])
    /\ Qualifies(trips[2])
    /\ pending.key = KeyOfTrip[trips[2], current_date_str]
    /\ pending.key # KeyOfTrip[trips[1], current_date_str]
    /\ pending.key \in seen

\* the lines extract_city looks at, as it sees them
ScannedLines(text) ==
    LET raw == splitlines(text)
        stripped == [i \in DOMAIN raw |-> strip(raw[i])]
    IN  [i \in DOMAIN SelectSeq(stripped, NonEmpty) |->
            collapse_ws(SelectSeq(stripped, NonEmpty)[i])]

\* line i has a state token, and the text before it has no digit
Accepted(lines, i) ==
    /\ MatchEnds(lines[i]) # {}
    /\ ~HasDigit(strip(MatchGroup1(lines[i])))

\* what C14 says extract_city returns for an address
BottomMostCity(text) ==
    LET lines == ScannedLines(text)
        ok == {i \in DOMAIN lines : Accepted(lines, i)}
    IN  IF ok = {} THEN None
        ELSE LET i == CHOOSE x \in ok : \A y \in ok : y <= x
             IN  Some(title(strip(MatchGroup1(lines[i]))))

\* the addresses of the rows for which extract_city returns that, and no digit
BottomMostAddresses ==
    {a \in AddressTexts :
        /\ CityOfAddress[a] = BottomMostCity(a)
        /\ CityOfAddress[a] # None => ~HasDigit(CityOfAddress[a][1])}

\* C14: for the addresses of every trip at hand, extract_city returns the
\* title-cased text before the state token of the bottom-most line that has a
\* token and no digit before it, lines with a digit being passed over; it
\* returns None when there is no such line, and never a text with a digit.
C14_BottomMostDigitFreeCity ==
    pc \in {"trips", "send"} =>
        \A i \in DOMAIN trips :
            /\ trips[i].pickup_text \in BottomMostAddresses
            /\ trips[i].dropoff_text \in BottomMostAddresses

\* C14 witness: the msg of a trip whose pickup city was found above a street
\* line with a token (1500 Hwy Mn), and whose dropoff city is the lower of two
\* city lines
C14_Witness ==
    /\ pc = "send"
    /\ pending.pickup_text = SkipLinePickup
    /\ pending.pickup_city = <<"V","e","r","o","n","a">>
    /\ pending.dropoff_text = TwoCityDropoff
    /\ pending.dropoff_city = <<"R","a","c","i","n","e">>

\* the state tokens, and the letter cases a token can be written in
StateTokens == {<<"W","I">>, <<"M","N">>, <<"I","L">>}

TokenCases(token) ==
    {<<a, b>> : a \in {token[1], ToLower(token[1])}, b \in {token[2], ToLower(token[2])}}

\* C15: a city line is recognised whatever the letter case of its state token:
\* a trip whose pickup city line is "Madison", the token in upper, lower or
\* mixed case, and a ZIP code, has the pickup city Madison.
C15_StateTokenAnyCase ==
    pc \in {"trips", "send"} =>
        \A i \in DOMAIN trips : \A token \in StateTokens : \A written \in TokenCases(token) :
            trips[i].pickup_text = TokenAddress(<<"M","a","d","i","s","o","n">>, written)
                => CityOf(trips[i].pickup_text) = Some(<<"M","a","d","i","s","o","n">>)

\* miles, in thousandths, at which the cost is looked at: under, at and over
\* the 5 miles of the base fee, and the miles of the rows
SampleMiles ==
    {Num(v) : v \in {0 - 3000, 0, 1, 2500, 4999, 5000, 5001, 5010, 10000, 35000, 35010,
                     40000, 40001, 40004, 40010, 1040500}}

Dollars(d) == Num(d * 10000)

\* the cost at the sample miles: 19.00 up to 5 miles, never falling as the
\* miles grow, 28.00 at 10 miles and 82.00 at 40 miles
CostOfSamples ==
    /\ \A m \in SampleMiles : m.v <= 5000 => calc_trip_cost(m) = Dollars(19)
    /\ \A m, n \in SampleMiles : m.v <= n.v => calc_trip_cost(m).v <= calc_trip_cost(n).v
    /\ \A m \in SampleMiles : calc_trip_cost(m).v = 190000 + (IF m.v > 5000 THEN 18 * (m.v - 5000) ELSE 0)
    /\ calc_trip_cost(Num(10000)) = Dollars(28)
    /\ calc_trip_cost(Num(40000)) = Dollars(82)

\* C16: the cost is 19.00 plus 1.80 per mile over 5: 19.00 for miles up to 5
\* (0 too), never falling as the miles grow, 28.00 for 10 miles and 82.00 for
\* 40; the cost in a msg is that of the miles of its trip.
C16_CostFormula ==
    /\ CostOfSamples
    /\ (pc = "send" /\ trips[idx].miles.k = "num") =>
            /\ trips[idx].miles \in SampleMiles
            /\ pending.cost_text =
                   format_2f(Num(190000 + 18 * (trips[idx].miles.v - 5000)), 10000)

\* C16 witness: the msg of a trip of 40.00 miles shows the cost 82.00
C16_Witness ==
    /\ pc = "send"
    /\ trips[idx].miles = Num(40000)
    /\ pending.miles_text = <<"4","0",".","0","0">>
    /\ pending.cost_text = <<"8","2",".","0","0">>

\* the key of the trip the loop is at
current_key == KeyOfTrip[trips[idx], current_date_str]

\* main() is outside the trip loop and running
BetweenSnapshots == pc \in {"loop", "filter", "read", "return", "except"}

\* C17: a trip of the snapshot that passes both gates and whose key is not in
\* the ledger goes into the ledger and has its msg passed to send_telegram
\* once, in the pass of the loop that meets it; when the snapshot is worked
\* through, and whenever main() is outside the trip loop, no msg is waiting and
\* every key of the ledger has had exactly one send_telegram call.
C17_NewTripSentWithinSnapshot ==
    /\ [][ (/\ pc = "trips" /\ idx <= Len(trips)
             /\ Qualifies(trips[idx]) /\ current_key \notin seen
             /\ pc' # "stopped"
             /\ <<pc, idx>>' # <<pc, idx>>)
            => (/\ pc' = "send"
                /\ seen' = seen \cup {current_key}
                /\ pending'.key = current_key
                /\ current_key \notin DOMAIN sent
                /\ offset' = offset) ]_vars
    /\ [][ (pc = "send" /\ pc' \notin {"send", "stopped"})
            => (/\ pc' = "trips"
                /\ pending.key \in DOMAIN sent'
                /\ sent'[pending.key].n = 1
                /\ pending' = NoMsg
                /\ offset' = offset) ]_vars
    /\ [](SnapshotDone =>
            /\ pending = NoMsg
            /\ \A i \in DOMAIN trips :
                   Qualifies(trips[i]) =>
                       /\ KeyOfTrip[trips[i], current_date_str] \in seen
                       /\ sent[KeyOfTrip[trips[i], current_date_str]].n = 1)
    /\ [](BetweenSnapshots => (pending = NoMsg /\ seen = DOMAIN sent))

\* C17 witness: a snapshot of the first date, with two qualifying trips of
\* different keys, is worked through; each key has had one send_telegram call
\* and the next date has not been switched to
C17_Witness ==
    /\ SnapshotDone
    /\ offset = 0
    /\ offset < LastOffset
    /\ Len(trips) = 2
    /\ Qualifies(trips[1]) /\ Qualifies(trips[2])
    /\ KeyOfTrip[trips[1], current_date_str] # KeyOfTrip[trips[2], current_date_str]
    /\ seen = {KeyOfTrip[trips[1], current_date_str], KeyOfTrip[trips[2], current_date_str]}
    /\ \A k \in seen : k \in DOMAIN sent /\ sent[k].n = 1

\* C18: when applying the date filter or reading the table raises, nothing is
\* added to the ledger and nothing is passed to send_telegram, then and until
\* the next cycle starts; the remaining dates are not visited: a date is
\* switched to only at the start of a cycle, which is today's date, or after
\* the snapshot of the date before it has been worked through; and the loop
\* ends by Ctrl-C only.
C18_ProviderFailureAbandonsCycle ==
    /\ [][ (pc \in {"filter", "read"} /\ pc' = "except")
            => (seen' = seen /\ sent' = sent /\ pending' = pending /\ pending = NoMsg) ]_vars
    /\ [][ (pc \in {"except", "loop"})
            => (seen' = seen /\ sent' = sent /\ pending' = pending) ]_vars
    /\ [][ (pc = "except") => pc' \in {"except", "loop", "stopped"} ]_vars
    /\ [][ (pc' = "filter" /\ pc # "filter")
            => ((pc = "loop" /\ offset' = 0 /\ today' = date_today)
                \/ (SnapshotDone /\ offset' = offset + 1 /\ today' = today)) ]_vars
    /\ [][ (pc' = "stopped" /\ pc # "stopped") => KeyboardInterrupt ]_vars

\* C18 witness: with trips in the ledger, the filter or the read of a date
\* that is not the last of the window has raised on the marketplace page
C18_Witness ==
    /\ pc = "except"
    /\ page = "marketplace"
    /\ offset < LastOffset
    /\ seen # {}
    /\ pending = NoMsg

\* C19: page.reload() is called, and a date filter is applied, only while the
\* page is not the login page, also when the session expires within a cycle.
C19_NoReloadOnLoginPage ==
    /\ [][ (pc = "filter" /\ pc' = "read") => ~is_login_page(page) ]_vars
    /\ [][ (pc = "return" /\ pc' \in {"loop", "except"}) => ~is_login_page(page) ]_vars

\* the rows of the table at the last read that are within the row limit and
\* give a trip
RowsWithinLimit ==
    {p \in 1 .. Min(Len(snapshot), ROW_LIMIT) : IsExtractable(snapshot[p])}

\* C20: only the first 200 rows of the table are read: every trip at hand, and
\* every key that enters the ledger or is passed to send_telegram, is that of
\* a row among the first 200 of the table just read; a row at index 200 or
\* later gives none of them.
C20_RowsPastLimitNeverRead ==
    /\ [](pc \in {"trips", "send"} =>
            /\ Len(trips) <= ROW_LIMIT
            /\ \A i \in DOMAIN trips : \E p \in RowsWithinLimit : trips[i] = TripOfRow[snapshot[p]])
    /\ [][ (seen' # seen) =>
             \E p \in RowsWithinLimit :
                 /\ seen' = seen \cup {KeyOfTrip[TripOfRow[snapshot[p]], current_date_str]}
                 /\ pending'.key = KeyOfTrip[TripOfRow[snapshot[p]], current_date_str] ]_vars
    /\ [][ (sent' # sent) =>
             \E p \in RowsWithinLimit :
                 DOMAIN sent' = DOMAIN sent \cup {KeyOfTrip[TripOfRow[snapshot[p]], current_date_str]} ]_vars

\* C20 witness: a table of more than 200 rows has been worked through on the
\* second date, after an alert on the first; the row at index 199 gave the one
\* trip at hand, and the qualifying row at index 200 gave none: its key is not
\* in the ledger
C20_Witness ==
    /\ SnapshotDone
    /\ offset = 1
    /\ seen # {}
    /\ Len(snapshot) > ROW_LIMIT
    /\ IsExtractable(snapshot[ROW_LIMIT])
    /\ IsExtractable(snapshot[ROW_LIMIT + 1])
    /\ Qualifies(TripOfRow[snapshot[ROW_LIMIT + 1]])
    /\ KeyOfTrip[TripOfRow[snapshot[ROW_LIMIT + 1]], current_date_str] \notin seen
    /\ trips = <<TripOfRow[snapshot[ROW_LIMIT]]>>

====
